---- MODULE Spec2Model ----
(***************************************************************************)
(* Model of services/nexus-graphrag/scripts/docling-wrapper.py: the        *)
(* command-line adapter that calls the external document converter and     *)
(* flattens its result object into the output schema.                      *)
(*                                                                         *)
(* Python values are modelled as follows.                                  *)
(*   - None is the empty tuple, any other optional value v is <<v>>.       *)
(*   - An object is a function from the names of the attributes it has to  *)
(*     their values, so hasattr(o, "a") is "a" \in DOMAIN o.               *)
(*   - A dict is a function from its keys to its values.                   *)
(*   - The type string of a layout element is a tuple of characters, so    *)
(*     that lower() and the substring test are computed.                   *)
(*   - A raised exception is a record carrying str(e) in msg.              *)
(***************************************************************************)
EXTENDS Integers, Sequences, FiniteSets, TLC

VARIABLES
    pc,               \* position of the process
    doclingInstalled, \* environment: the docling imports succeed
    inputExists,      \* environment: Path(args.input_file).exists()
    args,             \* the parsed command line
    converter,        \* DoclingProcessor.converter
    convertCalls,     \* number of calls of converter.convert
    convertOutcome,   \* what converter.convert did (returned or raised)
    result,           \* what process_document returned
    stdout,           \* what was printed to standard output
    outFile,          \* what was written to the output file
    log,              \* the log lines, in order
    exitCode,         \* the exit status of the process
    uncaught          \* where an exception escaped to the interpreter

vars == <<pc, doclingInstalled, inputExists, args, converter, convertCalls,
          convertOutcome, result, stdout, outFile, log, exitCode, uncaught>>

-----------------------------------------------------------------------------
(* Bounds of the enumerated inputs *)

MaxLayout == 2
MaxFigures == 2
MaxTables == 1

-----------------------------------------------------------------------------
(* Python values *)

None == <<>>
Some(v) == <<v>>

hasattr(o, a) == a \in DOMAIN o

\* str(v) of an optional string: str(None) is the text None
PyStr(v) == IF v = None THEN "None" ELSE v[1]

Ch_None == <<"N", "o", "n", "e">>

\* str(v) of an optional type string, as characters
PyStrChars(v) == IF v = None THEN Ch_None ELSE v[1]

UpperCase == <<"A", "B", "C", "D", "E", "F", "G", "H", "I", "J", "K", "L", "M",
               "N", "O", "P", "Q", "R", "S", "T", "U", "V", "W", "X", "Y", "Z">>
LowerCase == <<"a", "b", "c", "d", "e", "f", "g", "h", "i", "j", "k", "l", "m",
               "n", "o", "p", "q", "r", "s", "t", "u", "v", "w", "x", "y", "z">>

LowerChar(c) ==
    IF \E i \in 1..Len(UpperCase) : UpperCase[i] = c
    THEN LowerCase[CHOOSE i \in 1..Len(UpperCase) : UpperCase[i] = c]
    ELSE c

\* str.lower()
Lower(s) == [i \in 1..Len(s) |-> LowerChar(s[i])]

\* kw in s
Contains(kw, s) ==
    \E i \in 1..(Len(s) - Len(kw) + 1) : SubSeq(s, i, i + Len(kw) - 1) = kw

Min(S) == CHOOSE m \in S : \A n \in S : m <= n

\* all sequences over S of length at most n
SeqsUpTo(S, n) == UNION {[1..k -> S] : k \in 0..n}

-----------------------------------------------------------------------------
(* The keywords of the layout classification *)

Kw_header  == <<"h", "e", "a", "d", "e", "r">>
Kw_heading == <<"h", "e", "a", "d", "i", "n", "g">>
Kw_table   == <<"t", "a", "b", "l", "e">>
Kw_figure  == <<"f", "i", "g", "u", "r", "e">>
Kw_image   == <<"i", "m", "a", "g", "e">>
Kw_list    == <<"l", "i", "s", "t">>
Kw_code    == <<"c", "o", "d", "e">>
Kw_footer  == <<"f", "o", "o", "t", "e", "r">>
Kw_caption == <<"c", "a", "p", "t", "i", "o", "n">>

-----------------------------------------------------------------------------
(* initialize_converter *)

\* the pipeline options set from the options mapping; every key of options
\* is always present, so the defaults of options.get are never used
PipelineOptions(options) ==
    [table_extraction            |-> options.extract_tables,
     table_structure_recognition |-> options.extract_tables,
     figure_extraction           |-> options.extract_figures,
     equation_extraction         |-> options.extract_equations,
     layout_preservation         |-> options.preserve_layout]

-----------------------------------------------------------------------------
(* process_document: flattening of the result object.  An operator that can *)
(* raise returns [ok |-> TRUE, value |-> v] or [ok |-> FALSE, msg |-> str(e)] *)

Ok(v) == [ok |-> TRUE, value |-> v]
Raise(m) == [ok |-> FALSE, msg |-> m]

\* int(v): raises TypeError on None
PyInt(v) ==
    IF v = None
    THEN Raise("int() argument must be a string, a bytes-like object or a real number, not 'NoneType'")
    ELSE Ok(v[1])

\* ClassifyType with the list and code branches in the wrong order
ClassifyType_CodeFirst(element_type) ==
    IF Contains(Kw_header, element_type) \/ Contains(Kw_heading, element_type)
    THEN "header"
    ELSE IF Contains(Kw_table, element_type) THEN "table"
    ELSE IF Contains(Kw_figure, element_type) \/ Contains(Kw_image, element_type)
    THEN "figure"
    ELSE IF Contains(Kw_code, element_type) THEN "code"
    ELSE IF Contains(Kw_list, element_type) THEN "list"
    ELSE IF Contains(Kw_footer, element_type) THEN "footer"
    ELSE IF Contains(Kw_caption, element_type) THEN "caption"
    ELSE "paragraph"

\* the tag chosen by the if/elif chain on the lower-cased type string
ClassifyType(element_type) ==
    IF Contains(Kw_header, element_type) \/ Contains(Kw_heading, element_type)
    THEN "header"
    ELSE IF Contains(Kw_table, element_type) THEN "table"
    ELSE IF Contains(Kw_figure, element_type) \/ Contains(Kw_image, element_type)
    THEN "figure"
    ELSE IF Contains(Kw_list, element_type) THEN "list"
    ELSE IF Contains(Kw_code, element_type) THEN "code"
    ELSE IF Contains(Kw_footer, element_type) THEN "footer"
    ELSE IF Contains(Kw_caption, element_type) THEN "caption"
    ELSE "paragraph"

\* layout_element['type']
ElementType(element) ==
    IF hasattr(element, "type")
    THEN ClassifyType(Lower(PyStrChars(element.type)))
    ELSE "paragraph"

\* layout_element['level']: int(element.level) for a header that has a level
ElementLevel(element) ==
    IF hasattr(element, "type") /\ ElementType(element) = "header"
       /\ hasattr(element, "level")
    THEN LET n == PyInt(element.level)
         IN  IF n.ok THEN Ok(Some(n.value)) ELSE n
    ELSE Ok(None)

\* layout_element['content']: text, else content, else ''
ElementContent(element) ==
    IF hasattr(element, "text") THEN PyStr(element.text)
    ELSE IF hasattr(element, "content") THEN PyStr(element.content)
    ELSE ""

BBoxAttrs == <<"x", "y", "width", "height">>

\* the bbox dict; element.bbox.x, .y, .width, .height are read without a
\* presence check, so the first one that is missing raises AttributeError
ElementBBox(element) ==
    LET missing == {i \in 1..Len(BBoxAttrs) : ~hasattr(element.bbox, BBoxAttrs[i])}
    IN  IF missing = {}
        THEN Ok([x      |-> element.bbox.x,
                 y      |-> element.bbox.y,
                 width  |-> element.bbox.width,
                 height |-> element.bbox.height])
        ELSE Raise("'object' has no attribute " \o BBoxAttrs[Min(missing)])

\* layout_element['metadata'] once the bbox dict is known
ElementMetadata(element, bbox) ==
    [k \in {"bbox", "page"} \cap DOMAIN element |->
        IF k = "bbox" THEN bbox ELSE element.page]

\* one iteration of the layout loop
LayoutElement(element) ==
    LET level == ElementLevel(element)
        bbox  == IF hasattr(element, "bbox") THEN ElementBBox(element) ELSE Ok(None)
    IN  IF ~level.ok THEN level
        ELSE IF ~bbox.ok THEN bbox
        ELSE Ok([type     |-> ElementType(element),
                 content  |-> ElementContent(element),
                 level    |-> level.value,
                 metadata |-> ElementMetadata(element, bbox.value)])

\* the guard of the layout loop
LayoutRequested(res, options) ==
    options.preserve_layout /\ hasattr(res, "layout")

\* output['layout']
ExtractLayout(res, options) ==
    IF LayoutRequested(res, options)
    THEN LET bad == {i \in 1..Len(res.layout) : ~LayoutElement(res.layout[i]).ok}
         IN  IF bad = {}
             THEN Ok([i \in 1..Len(res.layout) |-> LayoutElement(res.layout[i]).value])
             ELSE LayoutElement(res.layout[Min(bad)])
    ELSE Ok(<<>>)

\* base64.b64encode(png).decode('utf-8')
B64Encode(png) == "base64(" \o png \o ")"

\* figure_data['base64']: set only when the image is a PIL image and neither
\* the import of PIL nor img.save raises; an exception is logged and swallowed
EncodeImage(figure) ==
    IF hasattr(figure, "image")
    THEN IF figure.image.encode = "raises"
         THEN [base64 |-> None, warned |-> TRUE]
         ELSE IF figure.image.class = "PIL.Image"
              THEN [base64 |-> Some(B64Encode(figure.image.png)), warned |-> FALSE]
              ELSE [base64 |-> None, warned |-> FALSE]
    ELSE [base64 |-> None, warned |-> FALSE]

\* one iteration of the figures loop
FigureData(figure) ==
    [caption |-> IF hasattr(figure, "caption") THEN PyStr(figure.caption) ELSE "",
     type    |-> "figure",
     base64  |-> EncodeImage(figure).base64]

\* the guard of the figures loop
FiguresRequested(res, options) ==
    options.extract_figures /\ hasattr(res, "figures")

\* ExtractFigures with the try around the loop: the first image that fails
\* to encode ends the loop
ExtractFigures_StopAtFailure(res, options) ==
    IF FiguresRequested(res, options)
    THEN LET failed == {i \in 1..Len(res.figures) : EncodeImage(res.figures[i]).warned}
             n == IF failed = {} THEN Len(res.figures) ELSE Min(failed) - 1
         IN  [i \in 1..n |-> FigureData(res.figures[i])]
    ELSE <<>>

\* output['figures']
ExtractFigures(res, options) ==
    IF FiguresRequested(res, options)
    THEN [i \in 1..Len(res.figures) |-> FigureData(res.figures[i])]
    ELSE <<>>

\* the warnings logged by the figures loop
FigureWarnings(res, options) ==
    IF FiguresRequested(res, options)
    THEN Cardinality({i \in 1..Len(res.figures) : EncodeImage(res.figures[i]).warned})
    ELSE 0

\* TableFormer baseline, in thousandths
Confidence == 979

\* [str(cell) for cell in cells]
StrCells(cells) == [i \in 1..Len(cells) |-> ToString(cells[i])]

\* one iteration of the tables loop
TableData(table) ==
    [headers    |-> IF hasattr(table, "header") THEN StrCells(table.header) ELSE <<>>,
     rows       |-> IF hasattr(table, "rows")
                    THEN [i \in 1..Len(table.rows) |-> StrCells(table.rows[i])]
                    ELSE <<>>,
     caption    |-> IF hasattr(table, "caption") THEN PyStr(table.caption) ELSE "",
     confidence |-> Confidence]

\* TablesRequested that ignores the flag
TablesRequested_IgnoreFlag(res, options) ==
    hasattr(res, "tables")

\* the guard of the tables loop
TablesRequested(res, options) ==
    options.extract_tables /\ hasattr(res, "tables")

\* output['tables']
ExtractTables(res, options) ==
    IF TablesRequested(res, options)
    THEN [i \in 1..Len(res.tables) |-> TableData(res.tables[i])]
    ELSE <<>>

\* dict.get(key, default)
DictGet(d, k, default) == IF k \in DOMAIN d THEN d[k] ELSE default

\* output['metadata']
ExtractMetadata(res, input, isDocument) ==
    IF isDocument /\ hasattr(res, "metadata")
    THEN [filename  |-> input.name,
          file_size |-> input.st_size,
          pages     |-> DictGet(res.metadata, "page_count", 0),
          title     |-> DictGet(res.metadata, "title", ""),
          author    |-> DictGet(res.metadata, "author", "")]
    ELSE [filename  |-> input.name,
          file_size |-> input.st_size,
          pages     |-> 0]

\* ExtractContent that renders markdown for the json format
ExtractContent_JsonMarkdown(res, options) ==
    IF options.output_format = "text" THEN res.to_text ELSE res.to_markdown

\* output['content']
ExtractContent(res, options) ==
    IF options.output_format = "markdown" THEN res.to_markdown
    ELSE IF options.output_format = "text" THEN res.to_text
    ELSE res.to_text

\* isinstance(result, Document)
IsDocument(res) == res.class = "Document"

\* FailureResult that keeps the empty lists of the output under construction
FailureResult_Partial(msg, options) ==
    [success |-> FALSE,
     error   |-> msg,
     format  |-> options.output_format,
     tables  |-> <<>>,
     figures |-> <<>>,
     layout  |-> <<>>]

\* the result of the except clause
FailureResult(msg, options) ==
    [success |-> FALSE,
     error   |-> msg,
     format  |-> options.output_format]

\* the body of the try block once convert has returned res
Flatten(res, options, input) ==
    IF IsDocument(res)
    THEN LET layout == ExtractLayout(res, options)
         IN  IF layout.ok
             THEN Ok([success  |-> TRUE,
                      format   |-> options.output_format,
                      metadata |-> ExtractMetadata(res, input, TRUE),
                      content  |-> ExtractContent(res, options),
                      tables   |-> ExtractTables(res, options),
                      figures  |-> ExtractFigures(res, options),
                      layout   |-> layout.value])
             ELSE layout
    ELSE Ok([success  |-> TRUE,
             format   |-> options.output_format,
             metadata |-> ExtractMetadata(res, input, FALSE),
             content  |-> "",
             tables   |-> <<>>,
             figures  |-> <<>>,
             layout   |-> <<>>])

\* what process_document returns once the converter exists
ProcessResult(outcome, options, input) ==
    IF outcome.kind = "raise"
    THEN FailureResult(outcome.msg, options)
    ELSE LET out == Flatten(outcome.value, options, input)
         IN  IF out.ok THEN out.value ELSE FailureResult(out.msg, options)

-----------------------------------------------------------------------------
(* The inputs: the reported type strings of layout elements *)

Ty_Heading1 == <<"H", "e", "a", "d", "i", "n", "g", "-", "1">>
Ty_Table == <<"T", "a", "b", "l", "e">>
Ty_Image == <<"I", "m", "a", "g", "e">>
Ty_ListItem == <<"L", "i", "s", "t", "I", "t", "e", "m">>
Ty_CodeBlock == <<"C", "o", "d", "e", "B", "l", "o", "c", "k">>
Ty_Footer == <<"F", "o", "o", "t", "e", "r">>
Ty_Caption == <<"C", "a", "p", "t", "i", "o", "n">>
Ty_Paragraph == <<"P", "a", "r", "a", "g", "r", "a", "p", "h">>
Ty_SECTIONHEADER == <<"S", "E", "C", "T", "I", "O", "N", "_", "H", "E", "A", "D", "E", "R">>
Ty_TableHeader == <<"T", "a", "b", "l", "e", "H", "e", "a", "d", "e", "r">>
Ty_TableFooter == <<"T", "a", "b", "l", "e", "F", "o", "o", "t", "e", "r">>
Ty_FigureCaption == <<"F", "i", "g", "u", "r", "e", "C", "a", "p", "t", "i", "o", "n">>
Ty_CodeListing == <<"C", "o", "d", "e", "L", "i", "s", "t", "i", "n", "g">>
Ty_ListOfImages == <<"L", "i", "s", "t", "O", "f", "I", "m", "a", "g", "e", "s">>
Ty_Text == <<"T", "e", "x", "t">>

CanonicalTypes == <<Ty_Heading1, Ty_Table, Ty_Image, Ty_ListItem, Ty_CodeBlock, Ty_Footer, Ty_Caption, Ty_Paragraph>>

TypeStrings == {Ty_Heading1,
                Ty_Table,
                Ty_Image,
                Ty_ListItem,
                Ty_CodeBlock,
                Ty_Footer,
                Ty_Caption,
                Ty_Paragraph,
                Ty_SECTIONHEADER,
                Ty_TableHeader,
                Ty_TableFooter,
                Ty_FigureCaption,
                Ty_CodeListing,
                Ty_ListOfImages,
                Ty_Text}

\* the file at input_path
Input == [name |-> "doc.pdf", st_size |-> 1024]

FullBBox == [x |-> 10, y |-> 20, width |-> 300, height |-> 40]

\* layout elements that differ in their reported type only
TypeElement(t) == [type |-> Some(t), text |-> Some("body")]

TypeElements ==
    {TypeElement(t) : t \in TypeStrings}
    \cup {[type |-> None, text |-> Some("body")], [text |-> Some("body")]}

\* layout elements that differ in which optional fields they have
FieldElements ==
    {[type |-> Some(Ty_Heading1), level |-> Some(2), text |-> Some("Title")],
     [type |-> Some(Ty_Heading1), level |-> None, text |-> Some("Title")],
     [type |-> Some(Ty_Paragraph), level |-> Some(2), text |-> Some("body")],
     [level |-> Some(2)],
     [type |-> Some(Ty_Text), content |-> Some("fallback")],
     [type |-> Some(Ty_Text), text |-> Some("body"), content |-> Some("fallback")],
     [type |-> Some(Ty_Text), text |-> None],
     [type |-> Some(Ty_Text)],
     [type |-> Some(Ty_Table), text |-> Some("body"), bbox |-> FullBBox, page |-> 3],
     [type |-> Some(Ty_Table), text |-> Some("body"), bbox |-> FullBBox],
     [type |-> Some(Ty_Table), text |-> Some("body"), page |-> 3],
     [type |-> Some(Ty_Table), text |-> Some("body"), bbox |-> [y |-> 20, width |-> 300, height |-> 40]],
     [type |-> Some(Ty_Table), text |-> Some("body"), bbox |-> [x |-> 10, y |-> 20]],
     [type |-> Some(Ty_Table), text |-> Some("body"), bbox |-> [k \in {} |-> 0]]}

\* the elements that longer layouts are built from
SeqElements ==
    {TypeElement(Ty_Heading1), TypeElement(Ty_CodeListing),
     TypeElement(Ty_Paragraph), [content |-> Some("fallback")]}

CanonicalLayout == [i \in 1..Len(CanonicalTypes) |-> TypeElement(CanonicalTypes[i])]

Layouts ==
    SeqsUpTo(SeqElements, MaxLayout)
    \cup {<<e>> : e \in TypeElements \cup FieldElements}
    \cup {CanonicalLayout}

PngImage == [class |-> "PIL.Image", encode |-> "ok", png |-> "PNG-1"]

FigureObjects ==
    {[caption |-> Some("Figure 1"), image |-> PngImage],
     [caption |-> Some("Figure 2"), image |-> [class |-> "PIL.Image", encode |-> "raises", png |-> "PNG-2"]],
     [caption |-> Some("Figure 3"), image |-> [class |-> "bytes", encode |-> "ok", png |-> ""]],
     [caption |-> Some("Figure 4")],
     [image |-> PngImage],
     [k \in {} |-> 0]}

FigureLists == SeqsUpTo(FigureObjects, MaxFigures)

TableObjects ==
    {[header |-> <<1, 2>>, rows |-> <<<<3, 4>>, <<5, 6>>>>, caption |-> Some("Table 1")],
     [header |-> <<1, 2>>, rows |-> <<<<3, 4>>>>, caption |-> None],
     [rows |-> <<<<3, 4>>>>],
     [header |-> <<>>, rows |-> <<>>],
     [k \in {} |-> 0]}

TableLists == SeqsUpTo(TableObjects, MaxTables)

MetadataDicts ==
    {[title |-> "Report", author |-> "A. Author", page_count |-> 7],
     [title |-> "Report"],
     [page_count |-> 7],
     [k \in {} |-> 0]}

\* a document with every optional attribute
BaseDocument ==
    [class       |-> "Document",
     to_text     |-> "plain text",
     to_markdown |-> "# markdown",
     metadata    |-> [title |-> "Report", author |-> "A. Author", page_count |-> 7],
     tables      |-> <<[header |-> <<1, 2>>, rows |-> <<<<3, 4>>>>, caption |-> Some("Table 1")]>>,
     figures     |-> <<[caption |-> Some("Figure 1"), image |-> PngImage]>>,
     layout      |-> <<TypeElement(Ty_Heading1), TypeElement(Ty_Paragraph)>>]

OptionalAttrs == {"metadata", "tables", "figures", "layout"}

Without(obj, attrs) == [a \in DOMAIN obj \ attrs |-> obj[a]]

\* the objects converter.convert can return
ResultObjects ==
    {[BaseDocument EXCEPT !.layout = l] : l \in Layouts}
    \cup {[BaseDocument EXCEPT !.figures = f] : f \in FigureLists}
    \cup {[BaseDocument EXCEPT !.tables = t] : t \in TableLists}
    \cup {[BaseDocument EXCEPT !.metadata = m] : m \in MetadataDicts}
    \cup {Without(BaseDocument, {a}) : a \in OptionalAttrs}
    \cup {Without(BaseDocument, OptionalAttrs)}
    \cup {[BaseDocument EXCEPT !.to_text = "", !.to_markdown = ""]}
    \cup {[BaseDocument EXCEPT !.class = "ConversionResult"],
          Without([BaseDocument EXCEPT !.class = "ConversionResult"], OptionalAttrs)}

\* what converter.convert can do: return an object, or raise an exception e
\* whose str(e) is the message (empty for an exception built without arguments)
ConvertOutcomes ==
    {[kind |-> "return", value |-> r] : r \in ResultObjects}
    \cup {[kind |-> "raise", msg |-> m] : m \in {"conversion failed", ""}}

\* the parsed command line
Args ==
    [output_format     : {"text", "markdown", "json"},
     preserve_layout   : BOOLEAN,
     extract_tables    : BOOLEAN,
     extract_figures   : BOOLEAN,
     extract_equations : BOOLEAN,
     output_file       : {None, Some(""), Some("out.json")}]

\* the options mapping main builds from the command line
Options(a) ==
    [output_format     |-> a.output_format,
     preserve_layout   |-> a.preserve_layout,
     extract_tables    |-> a.extract_tables,
     extract_figures   |-> a.extract_figures,
     extract_equations |-> a.extract_equations]

-----------------------------------------------------------------------------
(* The process *)

LogLine(level, msg) == [level |-> level, msg |-> msg]

Init ==
    /\ pc = "import"
    /\ doclingInstalled \in BOOLEAN
    /\ inputExists \in BOOLEAN
    /\ args \in Args
    /\ converter = None
    /\ convertCalls = 0
    /\ convertOutcome = None
    /\ result = None
    /\ stdout = <<>>
    /\ outFile = <<>>
    /\ log = <<>>
    /\ exitCode = None
    /\ uncaught = ""

\* the import guard at module level
ImportGuard ==
    /\ pc = "import"
    /\ IF doclingInstalled
       THEN /\ pc' = "main"
            /\ UNCHANGED <<log, exitCode>>
       ELSE /\ log' = log \o <<LogLine("ERROR", "Docling not installed"),
                               LogLine("ERROR", "Install with: pip install docling")>>
            /\ exitCode' = Some(1)
            /\ pc' = "exited"
    /\ UNCHANGED <<doclingInstalled, inputExists, args, converter, convertCalls,
                   convertOutcome, result, stdout, outFile, uncaught>>

\* MainValidate that logs the missing file and goes on
MainValidate_NoExit ==
    /\ pc = "main"
    /\ log' = IF ~inputExists
              THEN log \o <<LogLine("ERROR", "Input file not found")>>
              ELSE log
    /\ pc' = "process"
    /\ UNCHANGED <<doclingInstalled, inputExists, args, converter, convertCalls,
                   convertOutcome, result, stdout, outFile, exitCode, uncaught>>

\* main up to the call of process_document
MainValidate ==
    /\ pc = "main"
    /\ IF ~inputExists
       THEN /\ log' = log \o <<LogLine("ERROR", "Input file not found")>>
            /\ exitCode' = Some(1)
            /\ pc' = "exited"
       ELSE /\ pc' = "process"
            /\ UNCHANGED <<log, exitCode>>
    /\ UNCHANGED <<doclingInstalled, inputExists, args, converter, convertCalls,
                   convertOutcome, result, stdout, outFile, uncaught>>

\* the lines process_document logs
ProcessLog(outcome, res, options) ==
    <<LogLine("INFO", "Processing document")>>
    \o (IF outcome.kind = "return" /\ IsDocument(outcome.value)
        THEN [i \in 1..FigureWarnings(outcome.value, options) |->
                 LogLine("WARNING", "Could not extract figure image")]
        ELSE <<>>)
    \o (IF res.success THEN <<>>
        ELSE <<LogLine("ERROR", "Error processing document")>>)

\* processor.process_document(input_path, options); the converter is built
\* before the try block, so an exception of its constructor is not caught
ProcessDocument ==
    /\ pc = "process"
    /\ \E ctorRaises \in BOOLEAN, outcome \in ConvertOutcomes :
          IF converter = None /\ ctorRaises
          THEN /\ uncaught' = "initialize_converter"
               /\ exitCode' = Some(1)
               /\ pc' = "exited"
               /\ UNCHANGED <<converter, convertCalls, convertOutcome, result, log>>
          ELSE LET options == Options(args)
                   res == ProcessResult(outcome, options, Input)
               IN  /\ converter' = IF converter = None
                                   THEN Some(PipelineOptions(options))
                                   ELSE converter
                   /\ convertCalls' = convertCalls + 1
                   /\ convertOutcome' = Some(outcome)
                   /\ result' = Some(res)
                   /\ log' = log \o ProcessLog(outcome, res, options)
                   /\ pc' = "output"
                   /\ UNCHANGED <<exitCode, uncaught>>
    /\ UNCHANGED <<doclingInstalled, inputExists, args, stdout, outFile>>

\* if args.output_file: an empty path is falsy
Truthy(v) == v # None /\ v[1] # ""

\* json.dumps(result) and json.dump(result, f, indent=2): the object with the
\* keys of the dict, None written as null
JsonNull(v) == IF v = None THEN "null" ELSE v[1]

JsonFigure(f) == [caption |-> f.caption, type |-> f.type, base64 |-> JsonNull(f.base64)]

JsonElement(e) ==
    [type |-> e.type, content |-> e.content,
     level |-> IF e.level = None THEN "null" ELSE ToString(e.level[1]),
     metadata |-> e.metadata]

JsonDumps(res, indent) ==
    [kind   |-> "json",
     indent |-> indent,
     object |-> [k \in DOMAIN res |->
                   IF k = "figures"
                   THEN [i \in 1..Len(res.figures) |-> JsonFigure(res.figures[i])]
                   ELSE IF k = "layout"
                   THEN [i \in 1..Len(res.layout) |-> JsonElement(res.layout[i])]
                   ELSE res[k]]]

\* result.get('content', '') written as it is
RawContent(res) == [kind |-> "text", text |-> DictGet(res, "content", "")]

\* what main writes for the result
Emitted(res, a) ==
    IF a.output_format = "json"
    THEN JsonDumps(res, IF Truthy(a.output_file) THEN 2 ELSE 0)
    ELSE RawContent(res)

\* the output step of main; open, write and print can raise, and main
\* catches nothing
WriteOutput ==
    /\ pc = "output"
    /\ \E ioRaises \in BOOLEAN :
          IF ioRaises
          THEN /\ uncaught' = "write"
               /\ exitCode' = Some(1)
               /\ pc' = "exited"
               /\ UNCHANGED <<stdout, outFile, log>>
          ELSE /\ IF Truthy(args.output_file)
                  THEN /\ outFile' = outFile \o <<Emitted(result[1], args)>>
                       /\ log' = log \o <<LogLine("INFO", "Output written to")>>
                       /\ UNCHANGED stdout
                  ELSE /\ stdout' = stdout \o <<Emitted(result[1], args)>>
                       /\ UNCHANGED <<outFile, log>>
               /\ pc' = "return"
               /\ UNCHANGED <<exitCode, uncaught>>
    /\ UNCHANGED <<doclingInstalled, inputExists, args, converter, convertCalls,
                   convertOutcome, result>>

\* ExitStatus that reports success whatever the result
ExitStatus_AlwaysZero(res) == 0

\* 0 if result.get('success', False) else 1
ExitStatus(res) == IF DictGet(res, "success", FALSE) THEN 0 ELSE 1

\* return of main, then sys.exit
MainReturn ==
    /\ pc = "return"
    /\ exitCode' = Some(ExitStatus(result[1]))
    /\ pc' = "exited"
    /\ UNCHANGED <<doclingInstalled, inputExists, args, converter, convertCalls,
                   convertOutcome, result, stdout, outFile, log, uncaught>>

Next ==
    \/ ImportGuard
    \/ MainValidate
    \/ ProcessDocument
    \/ WriteOutput
    \/ MainReturn

Spec == Init /\ [][Next]_vars

-----------------------------------------------------------------------------
(* Properties *)

\* the dict process_document returned, the outcome of convert and the object
\* convert returned (each used only where it exists)
Res == result[1]
Outcome == convertOutcome[1]
Obj == Outcome.value
Returned == convertOutcome # None /\ Outcome.kind = "return"
ConvertRaised == convertOutcome # None /\ Outcome.kind = "raise"

SuccessKeys == {"success", "format", "metadata", "content", "tables", "figures", "layout"}
FailureKeys == {"success", "format", "error"}

\* everything the process has written, to standard output or to the file
EmittedDocs == stdout \o outFile

ErrorLines == {i \in 1..Len(log) : log[i].level = "ERROR"}

\* C1: when the input file exists, an exception of the converter's lazy
\* construction, of the convert call or of the flattening is caught inside
\* process_document and turned into {success: false, error, format}; none
\* propagates out of process_document, and the process exits non-zero.
C1_ExceptionsCaught ==
    /\ uncaught # "initialize_converter"
    /\ (result # None /\ (ConvertRaised \/ ~Res.success)) =>
          /\ DOMAIN Res = FailureKeys
          /\ Res.success = FALSE
          /\ Res.format = args.output_format
    /\ (pc = "exited" /\ result # None /\ ~Res.success) =>
          (exitCode # None /\ exitCode[1] # 0)

\* C2 as stated: whatever the process emits, for every output_format, is JSON
\* whose key set is the success key set when success is true and the failure
\* key set when success is false.
C2_EmittedAlwaysJson ==
    \A i \in 1..Len(EmittedDocs) :
        /\ EmittedDocs[i].kind = "json"
        /\ DOMAIN EmittedDocs[i].object =
              (IF EmittedDocs[i].object.success THEN SuccessKeys ELSE FailureKeys)

\* C2 amended: the result process_document returns has exactly the success
\* key set when success is true and exactly the failure key set when it is
\* false; the process emits it as JSON with these keys when output_format is
\* json, and emits the raw content string (empty for a failure result) when
\* output_format is text or markdown.
C2_ResultKeySets ==
    /\ result # None =>
          DOMAIN Res = (IF Res.success THEN SuccessKeys ELSE FailureKeys)
    /\ \A i \in 1..Len(EmittedDocs) :
          IF args.output_format = "json"
          THEN /\ EmittedDocs[i].kind = "json"
               /\ EmittedDocs[i].object.success = Res.success
               /\ DOMAIN EmittedDocs[i].object =
                     (IF Res.success THEN SuccessKeys ELSE FailureKeys)
          ELSE /\ EmittedDocs[i].kind = "text"
               /\ EmittedDocs[i].text = (IF Res.success THEN Res.content ELSE "")

\* a failure result was printed as JSON
C2_Witness ==
    /\ stdout # <<>>
    /\ stdout[1].kind = "json"
    /\ ~stdout[1].object.success
    /\ ~Res.success

\* C3: whenever the convert call raises, the result has success = false and a
\* non-empty error string, the exit code is 1, and the result has none of the
\* keys tables, figures, layout.
C3_ConvertRaiseResult ==
    ConvertRaised =>
        /\ Res.success = FALSE
        /\ Res.error # ""
        /\ DOMAIN Res \cap {"tables", "figures", "layout"} = {}
        /\ pc = "exited" => exitCode = Some(1)

\* C4: in every successful result, extract_tables = false implies tables = [],
\* extract_figures = false implies figures = [], and preserve_layout = false
\* implies layout = [], whatever the external result object contains.
C4_DisabledExtractionsEmpty ==
    (result # None /\ Res.success) =>
        /\ ~args.extract_tables => Res.tables = <<>>
        /\ ~args.extract_figures => Res.figures = <<>>
        /\ ~args.preserve_layout => Res.layout = <<>>

\* a document with tables, figures and layout was flattened with the three
\* flags off
C4_Witness ==
    /\ result # None /\ Res.success
    /\ ~args.extract_tables /\ ~args.extract_figures /\ ~args.preserve_layout
    /\ Returned /\ Obj.class = "Document"
    /\ OptionalAttrs \subseteq DOMAIN Obj
    /\ Obj.tables # <<>> /\ Obj.figures # <<>> /\ Obj.layout # <<>>

\* C5 as stated: the exit code is 0 if and only if the produced result has
\* success = true, and 1 in every other case.
C5_ExitZeroIffSuccess ==
    pc = "exited" =>
        /\ exitCode \in {Some(0), Some(1)}
        /\ exitCode = Some(0) <=> (result # None /\ Res.success)

\* C5 amended: the exit code is 0 if and only if the produced result has
\* success = true and the output was written without an exception; it is 1 in
\* every other case (input file missing, dependency missing at import time,
\* failure result, or an exception that escapes from the construction of the
\* converter or from writing the output), whatever the output_format and the
\* destination.
C5_ExitCode ==
    pc = "exited" =>
        /\ exitCode \in {Some(0), Some(1)}
        /\ exitCode = Some(0) <=> (result # None /\ Res.success /\ uncaught = "")

\* a successful result whose output could not be written
C5_Witness ==
    /\ pc = "exited"
    /\ result # None /\ Res.success
    /\ uncaught = "write"
    /\ exitCode = Some(1)

\* C6: when main finds that the input path does not exist, the process exits
\* with code 1 after logging exactly one error line (its only log line), and
\* nothing has been written to standard output or to the output file and the
\* converter has been neither constructed nor called.  (main runs only when
\* the import guard has passed.)
C6_MissingInput ==
    /\ ~inputExists =>
          /\ stdout = <<>> /\ outFile = <<>>
          /\ converter = None /\ convertCalls = 0 /\ convertOutcome = None
          /\ result = None
    /\ (pc = "exited" /\ doclingInstalled /\ ~inputExists) =>
          /\ exitCode = Some(1)
          /\ Cardinality(ErrorLines) = 1
          /\ Len(log) = 1

\* main has exited on a missing input file
C6_Witness ==
    /\ pc = "exited"
    /\ doclingInstalled /\ ~inputExists
    /\ exitCode = Some(1)

\* the precedence order of the layout tags and their keywords
Precedence ==
    << <<"header",  {Kw_header, Kw_heading}>>,
       <<"table",   {Kw_table}>>,
       <<"figure",  {Kw_figure, Kw_image}>>,
       <<"list",    {Kw_list}>>,
       <<"code",    {Kw_code}>>,
       <<"footer",  {Kw_footer}>>,
       <<"caption", {Kw_caption}>> >>

\* the first tag, in precedence order, one of whose keywords occurs in the
\* reported type without regard to case; paragraph when there is none
ExpectedTag(element) ==
    IF "type" \notin DOMAIN element THEN "paragraph"
    ELSE LET s == Lower(PyStrChars(element.type))
             m == {i \in 1..Len(Precedence) : \E kw \in Precedence[i][2] : Contains(kw, s)}
         IN  IF m = {} THEN "paragraph" ELSE Precedence[Min(m)][1]

CanonicalTags ==
    <<"header", "table", "figure", "list", "code", "footer", "caption", "paragraph">>

\* C7: when the layout of a document is flattened (preserve_layout requested),
\* the output layout has one entry per input layout element, in the same
\* order, and the type of each entry is the first match, in the order
\* header/heading, table, figure/image, list, code, footer, caption, of a
\* case-insensitive substring test on the reported type, paragraph when
\* nothing matches; the reported types Heading-1, Table, Image, ListItem,
\* CodeBlock, Footer, Caption, Paragraph yield header, table, figure, list,
\* code, footer, caption, paragraph.
C7_LayoutClassification ==
    (/\ result # None /\ Res.success
     /\ args.preserve_layout
     /\ Returned /\ Obj.class = "Document" /\ "layout" \in DOMAIN Obj) =>
        /\ Len(Res.layout) = Len(Obj.layout)
        /\ \A i \in 1..Len(Obj.layout) :
              Res.layout[i].type = ExpectedTag(Obj.layout[i])
        /\ Obj.layout = CanonicalLayout =>
              [i \in 1..Len(Res.layout) |-> Res.layout[i].type] = CanonicalTags

\* the eight canonical elements were classified
C7_Witness ==
    /\ result # None /\ Res.success
    /\ args.preserve_layout
    /\ Returned /\ Obj.class = "Document" /\ "layout" \in DOMAIN Obj
    /\ Obj.layout = CanonicalLayout
    /\ Len(Res.layout) = 8

\* a figure whose image cannot be encoded: no image, not a PIL image, or an
\* exception while encoding
NotEncoded(figure) ==
    \/ "image" \notin DOMAIN figure
    \/ figure.image.class # "PIL.Image"
    \/ figure.image.encode = "raises"

\* a layout element whose flattening raises
ElementRaises(element) ==
    \/ /\ "bbox" \in DOMAIN element
       /\ ~({"x", "y", "width", "height"} \subseteq DOMAIN element.bbox)
    \/ /\ {"type", "level"} \subseteq DOMAIN element
       /\ ExpectedTag(element) = "header"
       /\ element.level = None

FiguresFlattened ==
    /\ result # None /\ Res.success
    /\ args.extract_figures
    /\ Returned /\ Obj.class = "Document" /\ "figures" \in DOMAIN Obj

C9_FlattenNeverFails ==
    (result # None /\ Returned) => Res.success

\* C10 as stated: in every successful result, content is the to_markdown()
\* rendering when output_format is markdown and the to_text() rendering when
\* it is text or json, for every result object convert returns.
C10_ContentAlwaysRendering ==
    (result # None /\ Res.success) =>
        Res.content = (IF args.output_format = "markdown"
                       THEN Obj.to_markdown ELSE Obj.to_text)

\* C10 amended: in every successful result whose result object is an instance
\* of Document, content is the to_markdown() rendering when output_format is
\* markdown and the to_text() rendering when it is text or json; for any
\* other result object content is the empty string.
C10_ContentByFormat ==
    (result # None /\ Res.success) =>
        Res.content = (IF Obj.class # "Document" THEN ""
                       ELSE IF args.output_format = "markdown"
                       THEN Obj.to_markdown ELSE Obj.to_text)

\* a document was flattened for the json format
C10_Witness ==
    /\ result # None /\ Res.success
    /\ args.output_format = "json"
    /\ Obj.class = "Document"
    /\ Obj.to_text # Obj.to_markdown
    /\ Res.content = Obj.to_text

====
